---- MODULE Spec2Model ----
(***************************************************************************)
(* A model of fbpic/cuda_utils.py: the CUDA grid utilities (launch plans), *)
(* the host/device transfer entry points, and the five data-parallel       *)
(* kernels (three layout copies, two basis transforms) executed by one     *)
(* GPU thread per grid index.                                              *)
(***************************************************************************)
EXTENDS Integers, Sequences, FiniteSets, TLC

VARIABLES
    py,        \* major version of the Python interpreter running the module
    planCall,  \* the last launch-plan call: its arguments and what it returned
    sim,       \* the simulation object: ptcl (use_cuda flag per species), fld
    fpc,       \* position of the host inside send_/receive_data_from_gpu
    calls,     \* the collaborator methods invoked so far by the current call
    mem,       \* device memory: storage id -> [shape, data]
    kern,      \* the kernel in flight: [name, args, extent, tpb, bpg], or NoKernel
    pc,        \* per GPU thread: the source line it executes next, or "exit"
    reg,       \* per GPU thread: its local variables
    acc,       \* the buffer accesses made by the kernel in flight
    prog,      \* the launches the host still has to make
    orig,      \* device memory as it was before the first launch
    nlaunch,   \* number of kernels launched so far
    fault      \* the kernel in flight was aborted by an illegal address

planVars   == <<py, planCall>>
facadeVars == <<sim, fpc, calls>>
kernelVars == <<mem, kern, pc, reg, acc, prog, orig, nlaunch, fault>>
vars       == <<py, planCall, sim, fpc, calls,
                mem, kern, pc, reg, acc, prog, orig, nlaunch, fault>>

-----------------------------------------------------------------------------
(* Bounds of the model. *)

MaxQuot    == 2   \* launch plans: extents range over (-MaxQuot..MaxQuot)*TPB + (-1..1)
MaxTPB     == 3   \* launch plans: group sizes 0..MaxTPB (and the two defaults)
MaxSpecies == 3   \* transfer entry points: at most this many species

(* Program constants. *)
DefaultTPB  == 256   \* cuda_tpb_bpg_1d(x, TPB = 256)
DefaultTPBx == 8     \* cuda_tpb_bpg_2d(x, y, TPBx = 8, TPBy = 8)
DefaultTPBy == 8

-----------------------------------------------------------------------------
(* CUDA grid utilities.                                                    *)
(* x/TPB is Python's "/": floor division of two ints under Python 2, true  *)
(* division under Python 3.  A quotient is kept exactly, as <<num, den>>   *)
(* with den > 0; int() truncates toward zero.                              *)

PyDiv(x, y) == IF py = 2 THEN <<x \div y, 1>> ELSE <<x, y>>

PyAddInt(q, k) == <<q[1] + k * q[2], q[2]>>

PyInt(q) == IF q[1] >= 0 THEN q[1] \div q[2] ELSE -((-q[1]) \div q[2])

\* Variants: the exact tiling ceil(x/TPB), and a count clamped to at least 1.
BlocksPerGridCeil(x, TPB) == (x + TPB - 1) \div TPB

BlocksPerGridClamped(x, TPB) ==
    IF (x \div TPB) + 1 < 1 THEN 1 ELSE (x \div TPB) + 1

\* BPG = int(x/TPB + 1)
BlocksPerGrid(x, TPB) == PyInt(PyAddInt(PyDiv(x, TPB), 1))

\* Returns <<BPG, TPB>>, or raises ZeroDivisionError when TPB = 0.
cuda_tpb_bpg_1d(x, TPB) ==
    IF TPB = 0 THEN [raised |-> "ZeroDivisionError"]
    ELSE [raised |-> "none", BPG |-> <<BlocksPerGrid(x, TPB)>>, TPB |-> <<TPB>>]

\* Returns <<<<BPGx, BPGy>>, <<TPBx, TPBy>>>>.
cuda_tpb_bpg_2d(x, y, TPBx, TPBy) ==
    IF TPBx = 0 \/ TPBy = 0 THEN [raised |-> "ZeroDivisionError"]
    ELSE [raised |-> "none",
          BPG |-> <<BlocksPerGrid(x, TPBx), BlocksPerGrid(y, TPBy)>>,
          TPB |-> <<TPBx, TPBy>>]

GroupSizes == (0..MaxTPB) \cup {DefaultTPB, DefaultTPBx, DefaultTPBy}

ExtentsFor(TPB) ==
    {q * TPB + e : q \in -MaxQuot..MaxQuot, e \in -1..1}

NoCall == [fn |-> "none"]

\* The host calls cuda_tpb_bpg_1d(x, TPB), once in a run of the model.
CallPlan1D ==
    /\ planCall = NoCall
    /\ \E TPB \in GroupSizes : \E x \in ExtentsFor(TPB) :
          planCall' = [fn |-> "cuda_tpb_bpg_1d", x |-> <<x>>, TPB |-> <<TPB>>,
                       ret |-> cuda_tpb_bpg_1d(x, TPB)]
    /\ UNCHANGED <<py, facadeVars, kernelVars>>

\* The host calls cuda_tpb_bpg_2d(x, y, TPBx, TPBy), once in a run of the model.
CallPlan2D ==
    /\ planCall = NoCall
    /\ \E TPBx \in GroupSizes, TPBy \in GroupSizes :
       \E x \in ExtentsFor(TPBx), y \in ExtentsFor(TPBy) :
          planCall' = [fn |-> "cuda_tpb_bpg_2d", x |-> <<x, y>>,
                       TPB |-> <<TPBx, TPBy>>,
                       ret |-> cuda_tpb_bpg_2d(x, y, TPBx, TPBy)]
    /\ UNCHANGED <<py, facadeVars, kernelVars>>

-----------------------------------------------------------------------------
(* CUDA memory management: send_data_to_gpu and receive_data_from_gpu.     *)
(* sim.ptcl is the list of species, each reduced to its use_cuda flag; the  *)
(* collaborators' methods are opaque, so a call is recorded in "calls".    *)

Simulations ==
    UNION {[1..n -> BOOLEAN] : n \in 0..MaxSpecies}

SpeciesMethod(fn) ==
    IF fn = "send_data_to_gpu" THEN "send_particles_to_gpu"
    ELSE "receive_particles_from_gpu"

FieldMethod(fn) ==
    IF fn = "send_data_to_gpu" THEN "send_fields_to_gpu"
    ELSE "receive_fields_from_gpu"

Idle == [fn |-> "none", i |-> 0]

\* The host enters send_data_to_gpu(simulation) or receive_data_from_gpu.
FacadeCall ==
    /\ fpc.fn = "none"
    /\ \E fn \in {"send_data_to_gpu", "receive_data_from_gpu"} :
          fpc' = [fn |-> fn, i |-> 1]
    /\ calls' = <<>>
    /\ UNCHANGED <<sim, planVars, kernelVars>>

\* A variant that ignores the flag.
SpeciesSelectedAll(species) == TRUE

\* if species.use_cuda
SpeciesSelected(species) == species

\* One iteration of "for species in simulation.ptcl".
FacadeSpecies ==
    /\ fpc.fn \in {"send_data_to_gpu", "receive_data_from_gpu"}
    /\ fpc.i <= Len(sim)
    /\ calls' = IF SpeciesSelected(sim[fpc.i])
                THEN Append(calls, <<"ptcl", fpc.i, SpeciesMethod(fpc.fn)>>)
                ELSE calls
    /\ fpc' = [fpc EXCEPT !.i = @ + 1]
    /\ UNCHANGED <<sim, planVars, kernelVars>>

\* simulation.fld.send_fields_to_gpu() / receive_fields_from_gpu(), and return.
FacadeField ==
    /\ fpc.fn \in {"send_data_to_gpu", "receive_data_from_gpu"}
    /\ fpc.i = Len(sim) + 1
    /\ calls' = Append(calls, <<"fld", 0, FieldMethod(fpc.fn)>>)
    /\ fpc' = [fn |-> "returned", i |-> 0, of |-> fpc.fn]
    /\ UNCHANGED <<sim, planVars, kernelVars>>

\* The host goes on after the call returned.
FacadeReturn ==
    /\ fpc.fn = "returned"
    /\ fpc' = Idle
    /\ calls' = <<>>
    /\ UNCHANGED <<sim, planVars, kernelVars>>

-----------------------------------------------------------------------------
(* Complex numbers.  A complex128 is kept exactly, as <<a, b, e>> standing  *)
(* for (a + b*i) / 2^e, in lowest terms (e = 0, or a or b odd): sums,       *)
(* differences, products by i and by 0.5 of such numbers are such numbers, *)
(* so the arithmetic below is the kernels' arithmetic without rounding.    *)

Cx(a, b) == <<a, b, 0>>

Undef == <<0, 0, -1>>   \* a local variable not assigned yet

RECURSIVE Pow2(_)
Pow2(n) == IF n = 0 THEN 1 ELSE 2 * Pow2(n - 1)

RECURSIVE CNorm(_)
CNorm(z) ==
    IF z[3] > 0 /\ z[1] % 2 = 0 /\ z[2] % 2 = 0
    THEN CNorm(<<z[1] \div 2, z[2] \div 2, z[3] - 1>>)
    ELSE z

CMax(m, n) == IF m >= n THEN m ELSE n

\* x + y
CAdd(x, y) ==
    LET e == CMax(x[3], y[3]) IN
    CNorm(<<x[1] * Pow2(e - x[3]) + y[1] * Pow2(e - y[3]),
            x[2] * Pow2(e - x[3]) + y[2] * Pow2(e - y[3]), e>>)

\* x - y
CSub(x, y) ==
    LET e == CMax(x[3], y[3]) IN
    CNorm(<<x[1] * Pow2(e - x[3]) - y[1] * Pow2(e - y[3]),
            x[2] * Pow2(e - x[3]) - y[2] * Pow2(e - y[3]), e>>)

\* 1.j * z
CMulI(z) == <<-z[2], z[1], z[3]>>

\* 0.5 * z
CHalf(z) == CNorm(<<z[1], z[2], z[3] + 1>>)

-----------------------------------------------------------------------------
(* Device memory and kernel launches.                                      *)
(* A buffer is [shape, data]: shape is <<Nz, Nr>> (2d array) or <<N>> (1d  *)
(* array), data maps each index tuple within the shape to a value.  Index  *)
(* k of the source is component k+1 here (TLA+ tuples start at 1).         *)

Positions(shape) ==
    IF Len(shape) = 2
    THEN {<<a, b>> : a \in 0..(shape[1] - 1), b \in 0..(shape[2] - 1)}
    ELSE {<<a>> : a \in 0..(shape[1] - 1)}

InBounds(pos, shape) == pos \in Positions(shape)

NoKernel == [name |-> "none"]

NoThreads == [w \in {} |-> "exit"]

\* The threads of a launch kernel[bpg, tpb]: <<blockIdx.x, blockIdx.y,
\* threadIdx.x, threadIdx.y>>.
Threads(bpg, tpb) ==
    {<<bx, by, tx, ty>> : bx \in 0..(bpg[1] - 1), by \in 0..(bpg[2] - 1),
                          tx \in 0..(tpb[1] - 1), ty \in 0..(tpb[2] - 1)}

\* A variant that forgets the block offset.
cuda_grid_nooffset(w, tpb) == <<w[3], w[4]>>

\* iz, ir = cuda.grid(2)
cuda_grid(w, tpb) == <<w[3] + w[1] * tpb[1], w[4] + w[2] * tpb[2]>>

\* A variant in which cuda_copy_2d_to_2d is bounded by array_out.
ShapeArgOut(name) ==
    CASE name = "cuda_copy_2d_to_2d" -> 2
      [] name = "cuda_copy_2d_to_1d" -> 1
      [] name = "cuda_copy_1d_to_2d" -> 2
      [] name = "cuda_rt_to_pm"      -> 1
      [] name = "cuda_pm_to_rt"      -> 1

\* The argument whose .shape the kernel's guard (and flatten formula) reads.
ShapeArg(name) ==
    CASE name = "cuda_copy_2d_to_2d" -> 1     \* array_in
      [] name = "cuda_copy_2d_to_1d" -> 1     \* array_2d
      [] name = "cuda_copy_1d_to_2d" -> 2     \* array_2d
      [] name = "cuda_rt_to_pm"      -> 1     \* buffer_r
      [] name = "cuda_pm_to_rt"      -> 1     \* buffer_p

\* A variant without the bounds guard.
GuardNone(name, args, g) == TRUE

\* if (iz < X.shape[0]) and (ir < X.shape[1])
Guard(name, args, g) ==
    LET shape == mem[args[ShapeArg(name)]].shape IN
    g[1] < shape[1] /\ g[2] < shape[2]

\* The first buffer access of a thread that passed the guard.
Entry(name) ==
    CASE name = "cuda_copy_2d_to_2d" -> "L32r"
      [] name = "cuda_copy_2d_to_1d" -> "L58r"
      [] name = "cuda_copy_1d_to_2d" -> "L84r"
      [] name = "cuda_rt_to_pm"      -> "L105"
      [] name = "cuda_pm_to_rt"      -> "L127"

\* The host launches the next kernel of its program on the grid that
\* cuda_tpb_bpg_2d gives for the extents it knows; every thread computes its
\* index and evaluates the guard (thread-private work on the immutable shape).
Launch ==
    /\ kern = NoKernel
    /\ prog # <<>>
    /\ LET l    == Head(prog)
           plan == cuda_tpb_bpg_2d(l.extent[1], l.extent[2], l.tpb[1], l.tpb[2])
       IN  /\ plan.raised = "none"
           /\ kern' = [name |-> l.name, args |-> l.args, extent |-> l.extent,
                       tpb |-> plan.TPB, bpg |-> plan.BPG]
           /\ pc' = [w \in Threads(plan.BPG, plan.TPB) |->
                        IF Guard(l.name, l.args, cuda_grid(w, plan.TPB))
                        THEN Entry(l.name) ELSE "exit"]
           /\ reg' = [w \in Threads(plan.BPG, plan.TPB) |-> <<Undef, Undef>>]
    /\ acc' = {}
    /\ prog' = Tail(prog)
    /\ nlaunch' = nlaunch + 1
    /\ fault' = FALSE
    /\ UNCHANGED <<mem, orig, planVars, facadeVars>>

KernelDone ==
    /\ kern # NoKernel
    /\ ~fault
    /\ \A w \in DOMAIN pc : pc[w] = "exit"

\* All threads have finished: the launch is over, the host goes on.  (After
\* a fault the context is lost and the host launches nothing more.)
Retire ==
    /\ KernelDone
    /\ kern' = NoKernel
    /\ pc' = NoThreads
    /\ reg' = NoThreads
    /\ UNCHANGED <<mem, acc, prog, orig, nlaunch, fault, planVars, facadeVars>>

\* An access outside the buffer is not checked on the device: it either
\* aborts the kernel with an illegal-address fault or touches whatever lies
\* at that address.
StrayCells ==
    UNION {{<<s, q>> : q \in Positions(mem[s].shape)} : s \in DOMAIN mem}

Junk == <<-1, -1, 0>>   \* the content of memory that belongs to no buffer

\* What an access outside its buffer can do: fault, touch memory of no
\* buffer, or touch a cell of some buffer.
Faults == <<0, <<>>>>
Misses == <<-1, <<>>>>
Strays == {Faults, Misses} \cup StrayCells

\* Thread w, at label lbl, reads args[k][pos] into its local variable v.
Load(w, lbl, k, pos, v, next) ==
    /\ pc[w] = lbl
    /\ ~fault
    /\ acc' = acc \cup {[w |-> w, arg |-> k, st |-> kern.args[k],
                         pos |-> pos, kind |-> "ld"]}
    /\ IF InBounds(pos, mem[kern.args[k]].shape)
       THEN /\ reg' = [reg EXCEPT ![w][v] = mem[kern.args[k]].data[pos]]
            /\ pc' = [pc EXCEPT ![w] = next]
            /\ fault' = fault
       ELSE \E got \in Strays :
               IF got = Faults
               THEN fault' = TRUE /\ UNCHANGED <<reg, pc>>
               ELSE /\ reg' = [reg EXCEPT ![w][v] =
                                 IF got = Misses THEN Junk
                                 ELSE mem[got[1]].data[got[2]]]
                    /\ pc' = [pc EXCEPT ![w] = next]
                    /\ fault' = fault
    /\ UNCHANGED <<mem, kern, prog, orig, nlaunch, planVars, facadeVars>>

\* Thread w, at label lbl, writes val to args[k][pos].
Store(w, lbl, k, pos, val, next) ==
    /\ pc[w] = lbl
    /\ ~fault
    /\ acc' = acc \cup {[w |-> w, arg |-> k, st |-> kern.args[k],
                         pos |-> pos, kind |-> "st"]}
    /\ IF InBounds(pos, mem[kern.args[k]].shape)
       THEN /\ mem' = [mem EXCEPT ![kern.args[k]].data[pos] = val]
            /\ pc' = [pc EXCEPT ![w] = next]
            /\ fault' = fault
       ELSE \E hit \in Strays :
               IF hit = Faults
               THEN fault' = TRUE /\ UNCHANGED <<mem, pc>>
               ELSE /\ mem' = IF hit = Misses THEN mem
                              ELSE [mem EXCEPT ![hit[1]].data[hit[2]] = val]
                    /\ pc' = [pc EXCEPT ![w] = next]
                    /\ fault' = fault
    /\ UNCHANGED <<reg, kern, prog, orig, nlaunch, planVars, facadeVars>>

-----------------------------------------------------------------------------
(* The kernels: what a thread that passed the guard does, one buffer       *)
(* access per step.                                                        *)

\* A variant that strides by the second extent.
FlatIndexNr(g, shape) == <<g[1] + shape[2] * g[2]>>

\* i = iz + array_2d.shape[0]*ir
FlatIndex(g, shape) == <<g[1] + shape[1] * g[2]>>

\* array_out[iz, ir] = array_in[iz, ir]
cuda_copy_2d_to_2d(w) ==
    /\ kern.name = "cuda_copy_2d_to_2d"
    /\ LET g == cuda_grid(w, kern.tpb) IN
       \/ Load(w, "L32r", 1, g, 1, "L32w")
       \/ Store(w, "L32w", 2, g, reg[w][1], "exit")

\* array_1d[i] = array_2d[iz, ir]
cuda_copy_2d_to_1d(w) ==
    /\ kern.name = "cuda_copy_2d_to_1d"
    /\ LET g == cuda_grid(w, kern.tpb)
           i == FlatIndex(g, mem[kern.args[1]].shape)
       IN  \/ Load(w, "L58r", 1, g, 1, "L58w")
           \/ Store(w, "L58w", 2, i, reg[w][1], "exit")

\* A variant that unpacks with the second axis contiguous.
cuda_copy_1d_to_2d_rowmajor(w) ==
    /\ kern.name = "cuda_copy_1d_to_2d"
    /\ LET g == cuda_grid(w, kern.tpb)
           i == <<g[2] + mem[kern.args[2]].shape[2] * g[1]>>
       IN  \/ Load(w, "L84r", 1, i, 1, "L84w")
           \/ Store(w, "L84w", 2, g, reg[w][1], "exit")

\* array_2d[iz, ir] = array_1d[i]
cuda_copy_1d_to_2d(w) ==
    /\ kern.name = "cuda_copy_1d_to_2d"
    /\ LET g == cuda_grid(w, kern.tpb)
           i == FlatIndex(g, mem[kern.args[2]].shape)
       IN  \/ Load(w, "L84r", 1, i, 1, "L84w")
           \/ Store(w, "L84w", 2, g, reg[w][1], "exit")

\* 0.5*( value_r - 1.j*value_t )
ValueP(value_r, value_t) == CHalf(CSub(value_r, CMulI(value_t)))

\* 0.5*( value_r + 1.j*value_t )
ValueM(value_r, value_t) == CHalf(CAdd(value_r, CMulI(value_t)))

\* A variant that scales the inverse as the forward transform is scaled.
ValueRHalved(value_p, value_m) == CHalf(CAdd(value_p, value_m))

\* ( value_p + value_m )
ValueR(value_p, value_m) == CAdd(value_p, value_m)

\* 1.j*( value_p - value_m )
ValueT(value_p, value_m) == CMulI(CSub(value_p, value_m))

\* A variant without the intermediate variables: buffer_m is computed from
\* buffer_r and buffer_t as they are after buffer_p was written.
cuda_rt_to_pm_reread(w) ==
    /\ kern.name = "cuda_rt_to_pm"
    /\ LET g == cuda_grid(w, kern.tpb) IN
       \/ Load(w, "L105", 1, g, 1, "L106")
       \/ Load(w, "L106", 2, g, 2, "L108")
       \/ Store(w, "L108", 3, g, ValueP(reg[w][1], reg[w][2]), "L109")
       \/ Store(w, "L109", 4, g,
                ValueM(mem[kern.args[1]].data[g], mem[kern.args[2]].data[g]),
                "exit")

cuda_rt_to_pm(w) ==
    /\ kern.name = "cuda_rt_to_pm"
    /\ LET g == cuda_grid(w, kern.tpb) IN
       \/ Load(w, "L105", 1, g, 1, "L106")      \* value_r = buffer_r[iz, ir]
       \/ Load(w, "L106", 2, g, 2, "L108")      \* value_t = buffer_t[iz, ir]
       \/ Store(w, "L108", 3, g, ValueP(reg[w][1], reg[w][2]), "L109")
       \/ Store(w, "L109", 4, g, ValueM(reg[w][1], reg[w][2]), "exit")

cuda_pm_to_rt(w) ==
    /\ kern.name = "cuda_pm_to_rt"
    /\ LET g == cuda_grid(w, kern.tpb) IN
       \/ Load(w, "L127", 1, g, 1, "L128")      \* value_p = buffer_p[iz, ir]
       \/ Load(w, "L128", 2, g, 2, "L130")      \* value_m = buffer_m[iz, ir]
       \/ Store(w, "L130", 3, g, ValueR(reg[w][1], reg[w][2]), "L131")
       \/ Store(w, "L131", 4, g, ValueT(reg[w][1], reg[w][2]), "exit")

-----------------------------------------------------------------------------
(* Idle values of the three groups of variables. *)

PlanIdle == planCall = NoCall

FacadeIdle == sim = <<>> /\ fpc = Idle /\ calls = <<>>

KernelIdle ==
    /\ mem = <<>> /\ orig = <<>> /\ kern = NoKernel /\ pc = NoThreads
    /\ reg = NoThreads /\ acc = {} /\ prog = <<>> /\ nlaunch = 0
    /\ fault = FALSE

-----------------------------------------------------------------------------
(* SpecPlan: the host calls the launch planners on extents around the      *)
(* multiples of the group size, negative ones included.                    *)

InitPlan == py \in {2, 3} /\ PlanIdle /\ FacadeIdle /\ KernelIdle

NextPlan == CallPlan1D \/ CallPlan2D

SpecPlan == InitPlan /\ [][NextPlan]_vars

PlanDims == DOMAIN planCall.x

PlanCalled == planCall.fn # "none"

\* C4: for every extent >= 0 and group size > 0, each dimension of plan1D and
\* plan2D gets groupCount = floor(extent/groupSize) + 1, hence
\* groupCount*groupSize > extent, and the group sizes are returned unchanged.
C4_LaunchCoverage ==
    (PlanCalled /\ \A k \in PlanDims : planCall.TPB[k] > 0) =>
        /\ planCall.ret.raised = "none"
        /\ planCall.ret.TPB = planCall.TPB
        /\ \A k \in PlanDims :
              planCall.x[k] >= 0 =>
                 /\ planCall.ret.BPG[k] = (planCall.x[k] \div planCall.TPB[k]) + 1
                 /\ planCall.ret.BPG[k] * planCall.TPB[k] > planCall.x[k]

\* A 2-D plan whose first extent is a positive exact multiple of its group
\* size (one surplus group) and whose second is not.
C4_Witness ==
    /\ planCall.fn = "cuda_tpb_bpg_2d"
    /\ planCall.TPB = <<DefaultTPBx, 3>>
    /\ planCall.x = <<16, 7>>
    /\ planCall.ret.raised = "none"
    /\ planCall.ret.BPG = <<3, 3>>

\* C5 as stated: every extent <= 0 with group size > 0 yields groupCount = 1
\* and no error.
C5_Original ==
    (PlanCalled /\ \A k \in PlanDims : planCall.TPB[k] > 0) =>
        /\ planCall.ret.raised = "none"
        /\ \A k \in PlanDims :
              planCall.x[k] <= 0 => planCall.ret.BPG[k] = 1

\* C5 amended: with group sizes > 0 no error is raised; extent = 0 yields
\* groupCount = 1, and every negative extent yields a groupCount <= 0.
C5_ZeroExtent ==
    (PlanCalled /\ \A k \in PlanDims : planCall.TPB[k] > 0) =>
        /\ planCall.ret.raised = "none"
        /\ \A k \in PlanDims :
              /\ planCall.x[k] = 0 => planCall.ret.BPG[k] = 1
              /\ planCall.x[k] < 0 => planCall.ret.BPG[k] <= 0

\* A 2-D plan for the extents 0 and -1: one group and no group.
C5_Witness ==
    /\ planCall.fn = "cuda_tpb_bpg_2d"
    /\ planCall.x = <<0, -1>>
    /\ planCall.TPB = <<2, 3>>
    /\ planCall.ret.raised = "none"
    /\ planCall.ret.BPG = <<1, 0>>

-----------------------------------------------------------------------------
(* SpecFacade: the host calls the two transfer entry points, again and     *)
(* again, on a simulation with up to MaxSpecies species.                   *)

InitFacade ==
    /\ py \in {2, 3} /\ PlanIdle /\ KernelIdle
    /\ sim \in Simulations /\ fpc = Idle /\ calls = <<>>

NextFacade == FacadeCall \/ FacadeSpecies \/ FacadeField \/ FacadeReturn

SpecFacade == InitFacade /\ [][NextFacade]_vars

Flagged == SelectSeq([i \in 1..Len(sim) |-> i], LAMBDA i : sim[i])

ExpectedCalls(speciesMethod, fieldMethod) ==
    [k \in 1..(Len(Flagged) + 1) |->
        IF k <= Len(Flagged) THEN <<"ptcl", Flagged[k], speciesMethod>>
        ELSE <<"fld", 0, fieldMethod>>]

\* C7: a returned sendToDevice has invoked the send operation of exactly the
\* flagged species, once each and in list order, then the field
\* collaborator's send operation once, and nothing else; likewise
\* receiveFromDevice with the receive operations; and while the species loop
\* is running no field operation has been invoked yet.
C7_TransferOrder ==
    /\ (fpc.fn = "returned" /\ fpc.of = "send_data_to_gpu") =>
          calls = ExpectedCalls("send_particles_to_gpu", "send_fields_to_gpu")
    /\ (fpc.fn = "returned" /\ fpc.of = "receive_data_from_gpu") =>
          calls = ExpectedCalls("receive_particles_from_gpu",
                                "receive_fields_from_gpu")
    /\ fpc.fn \in {"send_data_to_gpu", "receive_data_from_gpu"} =>
          \A k \in 1..Len(calls) : calls[k][1] = "ptcl"

\* A returned receive on three species of which the first and third are
\* flagged.
C7_Witness ==
    /\ fpc.fn = "returned" /\ fpc.of = "receive_data_from_gpu"
    /\ sim = <<TRUE, FALSE, TRUE>>
    /\ Len(calls) = 3

-----------------------------------------------------------------------------
(* Inputs of the kernel specifications. *)

Shapes(maxCells) ==
    {sh \in (1..maxCells) \X (1..maxCells) : sh[1] * sh[2] <= maxCells}

\* A value that identifies the storage and the position it was put in.
Code(s, pos) == Cx(10 * s + pos[1], IF Len(pos) = 2 THEN 1 + pos[2] ELSE 0)

\* Device memory with one buffer per shape, every cell holding its Code.
CodedMem(shapes) ==
    [s \in DOMAIN shapes |->
        [shape |-> shapes[s],
         data  |-> [pos \in Positions(shapes[s]) |-> Code(s, pos)]]]

\* The ways four parameters can share storage, each once: parameter k is
\* bound to storage b[k], storages numbered in order of first use.
Bindings ==
    {b \in [1..4 -> 1..4] :
        /\ b[1] = 1
        /\ \A k \in 2..4 : \E j \in 1..(k - 1) : b[k] <= b[j] + 1}

KernelThreads == DOMAIN pc

\* The threads that have not finished.
Running == {w \in DOMAIN pc : pc[w] # "exit"}

GridOf(w) == cuda_grid(w, kern.tpb)

-----------------------------------------------------------------------------------------------------------------------------------------------------
(* SpecKernel and SpecRace: one launch of any of the five kernels on       *)
(* buffers of matching shape, on the grid that cuda_tpb_bpg_2d gives.      *)
(* SpecKernel takes every block size up to MaxBlock and the transforms     *)
(* out of place and in place, under both Pythons; SpecRace takes blocks of *)
(* one thread and of the default size, and the transforms with every       *)
(* aliasing of their four parameters.                                      *)

MaxCells == 3   \* grids of at most MaxCells cells
MaxBlock == 2   \* threads per block, per dimension

KernelLaunches(bindings) ==
    {[name |-> "cuda_copy_2d_to_2d", args |-> a] : a \in {<<1, 2>>, <<1, 1>>}}
    \cup {[name |-> "cuda_copy_2d_to_1d", args |-> <<1, 4>>],
          [name |-> "cuda_copy_1d_to_2d", args |-> <<4, 1>>]}
    \cup {[name |-> n, args |-> b] :
             n \in {"cuda_rt_to_pm", "cuda_pm_to_rt"}, b \in bindings}

\* Storages 1..3 are 2d arrays of the grid's shape, storage 4 is a 1d array
\* of Nz*Nr elements; the basis transforms get a fourth 2d array instead.
InitLaunch(launches, blocks, pythons) ==
    /\ py \in pythons /\ PlanIdle /\ FacadeIdle
    /\ \E l \in launches, sh \in Shapes(MaxCells), tpb \in blocks :
          /\ mem = CodedMem(IF l.name \in {"cuda_rt_to_pm", "cuda_pm_to_rt"}
                            THEN <<sh, sh, sh, sh>>
                            ELSE <<sh, sh, sh, <<sh[1] * sh[2]>> >>)
          /\ prog = <<[name |-> l.name, args |-> l.args,
                       extent |-> sh, tpb |-> tpb]>>
    /\ orig = mem
    /\ kern = NoKernel /\ pc = NoThreads /\ reg = NoThreads
    /\ acc = {} /\ nlaunch = 0 /\ fault = FALSE

InitKernel ==
    InitLaunch(KernelLaunches({<<1, 2, 3, 4>>, <<1, 2, 1, 2>>}),
               (1..MaxBlock) \X (1..MaxBlock), {2, 3})

InitRace ==
    InitLaunch(KernelLaunches(Bindings),
               {<<1, 1>>, <<DefaultTPBx, DefaultTPBy>>}, {3})

NextKernel ==
    \/ Launch
    \/ Retire
    \/ \E w \in Running : cuda_copy_2d_to_2d(w)
    \/ \E w \in Running : cuda_copy_2d_to_1d(w)
    \/ \E w \in Running : cuda_copy_1d_to_2d(w)
    \/ \E w \in Running : cuda_rt_to_pm(w)
    \/ \E w \in Running : cuda_pm_to_rt(w)

SpecKernel == InitKernel /\ [][NextKernel]_vars

SpecRace == InitRace /\ [][NextKernel]_vars


\* The parameters a kernel writes, and the number of buffer accesses of a
\* thread that passed the guard.
OutputArgs(name) ==
    IF name \in {"cuda_rt_to_pm", "cuda_pm_to_rt"} THEN {3, 4} ELSE {2}

AccessCount(name) ==
    IF name \in {"cuda_rt_to_pm", "cuda_pm_to_rt"} THEN 4 ELSE 2

ThreadsAt(g) == {w \in KernelThreads : GridOf(w) = g}

AccessesOf(w) == {a \in acc : a.w = w}

\* C8: on buffers of matching shape Nz x Nr and the grid of plan2D(Nz, Nr,
\* gsX, gsY), every index within the extents belongs to exactly one thread,
\* which makes all the accesses of the kernel body (and has made them all
\* when the kernel is done); a surplus thread makes no access at all; no
\* access is outside its buffer; and a buffer that is not bound to an output
\* parameter keeps its contents.
C8_GuardedLaunch ==
    kern # NoKernel =>
        /\ ~fault
        /\ \A a \in acc : InBounds(a.pos, mem[a.st].shape)
        /\ \A g \in Positions(kern.extent) :
              /\ Cardinality(ThreadsAt(g)) = 1
              /\ KernelDone =>
                    \A w \in ThreadsAt(g) :
                       Cardinality(AccessesOf(w)) = AccessCount(kern.name)
        /\ \A w \in KernelThreads :
              GridOf(w) \notin Positions(kern.extent) =>
                 pc[w] = "exit" /\ AccessesOf(w) = {}
        /\ \A st \in DOMAIN mem :
              st \notin {kern.args[k] : k \in OutputArgs(kern.name)} =>
                 mem[st] = orig[st]

\* A finished cuda_copy_2d_to_1d on a 3 x 1 grid with blocks of 2 x 2
\* threads: a grid of 4 x 2 threads, five of them surplus.
C8_Witness ==
    /\ KernelDone
    /\ kern.name = "cuda_copy_2d_to_1d"
    /\ kern.extent = <<3, 1>>
    /\ kern.tpb = <<2, 2>>
    /\ Cardinality(KernelThreads) = 8
    /\ Cardinality({a.w : a \in acc}) = 3

\* The cells of a grid of the given shape, first axis fastest.
CellSeq(shape) ==
    [k \in 1..(shape[1] * shape[2]) |->
        <<(k - 1) % shape[1], (k - 1) \div shape[1]>>]

\* Memory m after one thread of index g has run the whole kernel body alone.
RunAlone(m, name, args, g) ==
    CASE name = "cuda_copy_2d_to_2d" ->
           [m EXCEPT ![args[2]].data[g] = m[args[1]].data[g]]
      [] name = "cuda_copy_2d_to_1d" ->
           [m EXCEPT ![args[2]].data[<<g[1] + m[args[1]].shape[1] * g[2]>>] =
                        m[args[1]].data[g]]
      [] name = "cuda_copy_1d_to_2d" ->
           [m EXCEPT ![args[2]].data[g] =
                        m[args[1]].data[<<g[1] + m[args[2]].shape[1] * g[2]>>]]
      [] name = "cuda_rt_to_pm" ->
           LET r  == m[args[1]].data[g]
               t  == m[args[2]].data[g]
               m1 == [m EXCEPT ![args[3]].data[g] = CHalf(CSub(r, CMulI(t)))]
           IN  [m1 EXCEPT ![args[4]].data[g] = CHalf(CAdd(r, CMulI(t)))]
      [] name = "cuda_pm_to_rt" ->
           LET p  == m[args[1]].data[g]
               q  == m[args[2]].data[g]
               m1 == [m EXCEPT ![args[3]].data[g] = CAdd(p, q)]
           IN  [m1 EXCEPT ![args[4]].data[g] = CMulI(CSub(p, q))]

\* Memory after the threads of the given cells have run one after the other.
RECURSIVE RunInOrder(_, _, _, _)
RunInOrder(m, name, args, cells) ==
    IF cells = <<>> THEN m
    ELSE RunInOrder(RunAlone(m, name, args, Head(cells)), name, args, Tail(cells))

\* C9: within one launch, with every buffer read and write a step of its
\* own, no thread reads or writes a position that another thread writes
\* (also when outputs alias inputs), and whatever the interleaving was, the
\* memory the kernel leaves is the one left by running the threads one
\* after the other.
C9_Interleaving ==
    /\ \A a \in acc : \A b \in acc :
          (a.w # b.w /\ a.st = b.st /\ a.pos = b.pos) =>
             (a.kind = "ld" /\ b.kind = "ld")
    /\ KernelDone =>
          mem = RunInOrder(orig, kern.name, kern.args, CellSeq(kern.extent))

\* cuda_rt_to_pm with p in r's storage and m in t's, on three cells: one
\* thread has written p and m over r and t, another has read r and is about
\* to read t, the third has not started.
C9_Witness ==
    /\ kern # NoKernel
    /\ kern.name = "cuda_rt_to_pm"
    /\ kern.args = <<1, 2, 1, 2>>
    /\ kern.extent = <<1, 3>>
    /\ \E w1 \in KernelThreads, w2 \in KernelThreads, w3 \in KernelThreads :
          pc[w1] = "exit" /\ AccessesOf(w1) # {} /\ pc[w2] = "L106" /\ pc[w3] = "L105"


-----------------------------------------------------------------------------
(* SpecBasis: a basis transform and then its inverse, applied to the       *)
(* outputs of the first and writing back to the inputs of the first, for   *)
(* every aliasing of the four parameters and several input values.         *)

BasisCells == 2   \* grids of at most BasisCells cells
MaxVal     == 1   \* input values Val(0) .. Val(MaxVal)

\* (3 - a)/2 + (a - 1)i: whole and half-integer components.
Val(a) == CNorm(<<3 - a, 2 * a - 2, 1>>)

Vals == {Val(a) : a \in 0..MaxVal}

Inverse(name) ==
    IF name = "cuda_rt_to_pm" THEN "cuda_pm_to_rt" ELSE "cuda_rt_to_pm"

InitBasis ==
    /\ py = 3 /\ PlanIdle /\ FacadeIdle
    /\ \E name \in {"cuda_rt_to_pm", "cuda_pm_to_rt"}, b \in Bindings,
          sh \in Shapes(BasisCells), x \in Vals, y \in Vals :
          /\ mem = [s \in 1..4 |->
                      [shape |-> sh,
                       data  |-> [pos \in Positions(sh) |->
                                    IF s = b[1] THEN CAdd(x, Cx(pos[1], pos[2]))
                                    ELSE IF s = b[2]
                                         THEN CAdd(y, Cx(pos[2], -pos[1]))
                                         ELSE Code(s, pos)]]]
          /\ prog = <<[name |-> name, args |-> b, extent |-> sh,
                       tpb |-> <<DefaultTPBx, DefaultTPBy>>],
                      [name |-> Inverse(name),
                       args |-> <<b[3], b[4], b[1], b[2]>>, extent |-> sh,
                       tpb |-> <<DefaultTPBx, DefaultTPBy>>]>>
    /\ orig = mem
    /\ kern = NoKernel /\ pc = NoThreads /\ reg = NoThreads
    /\ acc = {} /\ nlaunch = 0 /\ fault = FALSE

NextBasis ==
    \/ Launch
    \/ Retire
    \/ \E w \in Running : cuda_rt_to_pm(w)
    \/ \E w \in Running : cuda_pm_to_rt(w)

SpecBasis == InitBasis /\ [][NextBasis]_vars

FirstDone == nlaunch = 1 /\ KernelDone

SecondDone == nlaunch = 2 /\ KernelDone

\* What the first output (p, or r) and the second output (m, or t) of a
\* transform are, computed from the original inputs in1 and in2.
FirstOut(name, in1, in2) ==
    IF name = "cuda_rt_to_pm" THEN CHalf(CSub(in1, CMulI(in2)))
    ELSE CAdd(in1, in2)

SecondOut(name, in1, in2) ==
    IF name = "cuda_rt_to_pm" THEN CHalf(CAdd(in1, CMulI(in2)))
    ELSE CMulI(CSub(in1, in2))

OutputsAsDistinct(needDistinct) ==
    FirstDone =>
        \A g \in Positions(kern.extent) :
           LET in1 == orig[kern.args[1]].data[g]
               in2 == orig[kern.args[2]].data[g]
           IN  /\ mem[kern.args[4]].data[g] = SecondOut(kern.name, in1, in2)
               /\ (needDistinct => kern.args[3] # kern.args[4]) =>
                     mem[kern.args[3]].data[g] = FirstOut(kern.name, in1, in2)

\* C1 as stated: under every aliasing combination of the four buffers, p and
\* m (r and t for pmToRT) hold the values computed from the original inputs.
C1_Original == OutputsAsDistinct(FALSE)

\* C1 amended: under every aliasing combination in which the two output
\* buffers are distinct storage, both outputs hold the values computed from
\* the original inputs; when the two outputs are the same storage it holds
\* the second output's values.
C1_AliasingSafety == OutputsAsDistinct(TRUE)

\* A finished cuda_rt_to_pm on two cells whose p is r's storage and whose m
\* is t's, and which changed both.
C1_Witness ==
    /\ FirstDone
    /\ kern.name = "cuda_rt_to_pm"
    /\ kern.args = <<1, 2, 1, 2>>
    /\ kern.extent = <<2, 1>>
    /\ \A g \in Positions(kern.extent) :
          mem[1].data[g] # orig[1].data[g] /\ mem[2].data[g] # orig[2].data[g]

\* C2: a transform followed by its inverse applied to its two (distinct)
\* outputs reproduces the original pair at every element, in both orders.
C2_RoundTrip ==
    (SecondDone /\ kern.args[1] # kern.args[2]) =>
        \A g \in Positions(kern.extent) :
           /\ mem[kern.args[3]].data[g] = orig[kern.args[3]].data[g]
           /\ mem[kern.args[4]].data[g] = orig[kern.args[4]].data[g]

\* A finished cuda_pm_to_rt that read the p and m which cuda_rt_to_pm had
\* put in storages 3 and 4 and wrote r and t back to storages 1 and 2.
C2_Witness ==
    /\ SecondDone
    /\ kern.name = "cuda_pm_to_rt"
    /\ kern.args = <<3, 4, 1, 2>>
    /\ kern.extent = <<1, 2>>
    /\ mem[3] # orig[3] /\ mem[4] # orig[4] /\ mem[3] # mem[4]

-----------------------------------------------------------------------------
(* SpecCopy: a grid g[iz, ir] = iz + 10*ir is packed into a 1d array by    *)
(* cuda_copy_2d_to_1d, which cuda_copy_1d_to_2d unpacks into a second grid. *)

CopyCells == 6   \* grids of at most CopyCells cells

InitCopy ==
    /\ py \in {2, 3} /\ PlanIdle /\ FacadeIdle
    /\ \E sh \in Shapes(CopyCells) :
          /\ mem = <<[shape |-> sh,
                      data  |-> [pos \in Positions(sh) |->
                                    Cx(pos[1] + 10 * pos[2], 0)]],
                     [shape |-> <<sh[1] * sh[2]>>,
                      data  |-> [pos \in Positions(<<sh[1] * sh[2]>>) |-> Junk]],
                     [shape |-> sh,
                      data  |-> [pos \in Positions(sh) |-> Junk]]>>
          /\ prog = <<[name |-> "cuda_copy_2d_to_1d", args |-> <<1, 2>>,
                       extent |-> sh, tpb |-> <<DefaultTPBx, DefaultTPBy>>],
                      [name |-> "cuda_copy_1d_to_2d", args |-> <<2, 3>>,
                       extent |-> sh, tpb |-> <<DefaultTPBx, DefaultTPBy>>]>>
    /\ orig = mem
    /\ kern = NoKernel /\ pc = NoThreads /\ reg = NoThreads
    /\ acc = {} /\ nlaunch = 0 /\ fault = FALSE

NextCopy ==
    \/ Launch
    \/ Retire
    \/ \E w \in Running : cuda_copy_2d_to_1d(w)
    \/ \E w \in Running : cuda_copy_1d_to_2d(w)

SpecCopy == InitCopy /\ [][NextCopy]_vars

\* C3: after copy2Dto1D(g, flat) and copy1Dto2D(flat, g2), g2 equals g
\* element for element.
C3_LayoutRoundTrip ==
    SecondDone =>
        \A g \in Positions(orig[1].shape) : mem[3].data[g] = orig[1].data[g]

\* Both kernels have run on a 2 x 3 grid, and g2 no longer holds what it
\* held before.
C3_Witness ==
    /\ SecondDone
    /\ kern.name = "cuda_copy_1d_to_2d"
    /\ orig[1].shape = <<2, 3>>
    /\ \A g \in Positions(<<2, 3>>) : orig[3].data[g] # mem[3].data[g]

StoresAt(st, pos) == {a \in acc : a.kind = "st" /\ a.st = st /\ a.pos = pos}

\* C6: after copy2Dto1D on an Nz x Nr grid every position of the flat buffer
\* has been written exactly once, by one thread, nothing else has been
\* written, and flat[iz + Nz*ir] = g[iz, ir]; the 3 x 2 grid
\* g[iz, ir] = iz + 10*ir gives [0, 1, 2, 10, 11, 12].
C6_FlattenBijection ==
    FirstDone =>
        LET Nz == orig[1].shape[1]
            Nr == orig[1].shape[2]
        IN  /\ mem[2].shape = <<Nz * Nr>>
            /\ \A i \in 0..(Nz * Nr - 1) : Cardinality(StoresAt(2, <<i>>)) = 1
            /\ \A a \in acc :
                  a.kind = "st" => a.st = 2 /\ a.pos \in Positions(<<Nz * Nr>>)
            /\ \A g \in Positions(orig[1].shape) :
                  mem[2].data[<<g[1] + Nz * g[2]>>] = orig[1].data[g]
            /\ orig[1].shape = <<3, 2>> =>
                  /\ mem[2].data[<<0>>] = Cx(0, 0)
                  /\ mem[2].data[<<1>>] = Cx(1, 0)
                  /\ mem[2].data[<<2>>] = Cx(2, 0)
                  /\ mem[2].data[<<3>>] = Cx(10, 0)
                  /\ mem[2].data[<<4>>] = Cx(11, 0)
                  /\ mem[2].data[<<5>>] = Cx(12, 0)

\* cuda_copy_2d_to_1d has finished on the 3 x 2 grid.
C6_Witness ==
    /\ FirstDone
    /\ kern.name = "cuda_copy_2d_to_1d"
    /\ orig[1].shape = <<3, 2>>
    /\ Cardinality(acc) = 12


-----------------------------------------------------------------------------
(* SpecMismatch: one launch of a copy kernel whose source (storage 1) and  *)
(* destination (storage 2) were declared for grids of independent shapes;  *)
(* a 1d array declared for a grid Nz x Nr has Nz*Nr elements.  The host    *)
(* sizes the launch for the grid the source was declared for.              *)

MisCells == 3   \* grids of at most MisCells cells

ArrayFor(name, k, grid) ==
    IF (name = "cuda_copy_2d_to_1d" /\ k = 2) \/ (name = "cuda_copy_1d_to_2d" /\ k = 1)
    THEN <<grid[1] * grid[2]>>
    ELSE grid

InitMismatch ==
    /\ py = 3 /\ PlanIdle /\ FacadeIdle
    /\ \E name \in {"cuda_copy_2d_to_2d", "cuda_copy_2d_to_1d", "cuda_copy_1d_to_2d"},
          src \in Shapes(MisCells), dst \in Shapes(MisCells) :
          /\ mem = CodedMem(<<ArrayFor(name, 1, src), ArrayFor(name, 2, dst)>>)
          /\ prog = <<[name |-> name, args |-> <<1, 2>>, extent |-> src,
                       tpb |-> <<DefaultTPBx, DefaultTPBy>>]>>
    /\ orig = mem
    /\ kern = NoKernel /\ pc = NoThreads /\ reg = NoThreads
    /\ acc = {} /\ nlaunch = 0 /\ fault = FALSE

NextMismatch ==
    \/ Launch
    \/ Retire
    \/ \E w \in Running : cuda_copy_2d_to_2d(w)
    \/ \E w \in Running : cuda_copy_2d_to_1d(w)
    \/ \E w \in Running : cuda_copy_1d_to_2d(w)

SpecMismatch == InitMismatch /\ [][NextMismatch]_vars

\* A thread performs its copy when it passed the guard: it is at a buffer
\* access, or has made one.
Copies(w) == pc[w] # "exit" \/ AccessesOf(w) # {}

Below(g, extents) == g[1] < extents[1] /\ g[2] < extents[2]

\* The copies are bounded by, and flatten with, the given extents.
BoundedBy(extents) ==
    \A w \in KernelThreads :
       /\ Copies(w) <=> Below(GridOf(w), extents)
       /\ \A a \in AccessesOf(w) :
             Len(a.pos) = 1 => a.pos = <<GridOf(w)[1] + extents[1] * GridOf(w)[2]>>

\* C10 as stated: in all three copies the guard and the Nz of the flatten
\* formula are those of the grid the source buffer was declared for.
C10_Original == kern # NoKernel => BoundedBy(kern.extent)

\* C10 amended: cuda_copy_2d_to_2d and cuda_copy_2d_to_1d are bounded by (and
\* flatten with) the extents of their source, the 2d array being read;
\* cuda_copy_1d_to_2d by the extents of its destination, the 2d array being
\* written, whatever the 1d source was declared for.
C10_GuardExtents ==
    kern # NoKernel =>
        BoundedBy(IF kern.name = "cuda_copy_1d_to_2d"
                  THEN mem[kern.args[2]].shape
                  ELSE mem[kern.args[1]].shape)

\* A finished cuda_copy_1d_to_2d from a 1d array declared for a 1 x 2 grid
\* into a 2 x 1 grid: the thread of index (1, 0) has copied, the thread of
\* index (0, 1) has not.
C10_Witness ==
    /\ KernelDone
    /\ kern.name = "cuda_copy_1d_to_2d"
    /\ kern.extent = <<1, 2>>
    /\ mem[2].shape = <<2, 1>>
    /\ \E w \in KernelThreads : GridOf(w) = <<1, 0>> /\ AccessesOf(w) # {}
    /\ \E w \in KernelThreads : GridOf(w) = <<0, 1>> /\ AccessesOf(w) = {}

====
